---------------------------- MODULE Spec2Model ----------------------------
(***************************************************************************)
(* Model of the Water Linked DVL driver (dvl-a50/dvl.py): the ingestion    *)
(* loop DvlDriver.run, the record handlers, the configuration setters and  *)
(* the origin handshake, with the REST bridge (mavlink2resthelper.py) seen *)
(* as the outbound calls the driver makes.                                 *)
(*                                                                         *)
(* Units.  Floats of the source are kept as scaled integers:               *)
(*   velocities  m/s (integers), time  ms, position deltas  mm (= ms*m/s), *)
(*   altitude  cm, fom  1/1000, attitude  degrees, clock  seconds,         *)
(*   record timestamps  ms, latitude and longitude  1e-8 degrees.         *)
(***************************************************************************)
EXTENDS Integers, Sequences, FiniteSets, TLC

(***************************************************************************)
(* Program constants                                                       *)
(***************************************************************************)
DVL_DOWN == 1
DVL_FORWARD == 2
timeout == 3
temperature_check_interval_s == 30
temperature_too_hot == 45
\* _fom_max = 0.4, in thousandths
fom_max == 400
\* the altitude threshold 0.05 m of handle_velocity, in cm
min_altitude == 5

POSITION_DELTA == "POSITION_DELTA"
POSITION_ESTIMATE == "POSITION_ESTIMATE"
SPEED_ESTIMATE == "SPEED_ESTIMATE"
MessageType == {POSITION_DELTA, POSITION_ESTIMATE, SPEED_ESTIMATE}
HOSTNAME == "waterlinked-dvl.local"

(***************************************************************************)
(* Bounds of the model                                                     *)
(***************************************************************************)
\* longest buffer the loop is fed (characters)
MaxBuf == 6
\* largest chunk one recv returns (bytes)
MaxChunk == 3
\* bytes the sensor may have in flight on the socket
MaxWire == 8
\* largest reset_counter the control interface is driven to
MaxReset == 2
\* seconds added by one tick of the clock
TickSeconds == 3

VARIABLES
    \* ---- DvlDriver fields
    status, orientation, enabled, rangefinder, hostname, origin, should_send,
    reset_counter, timestamp, last_attitude, current_attitude,
    \* the TCP socket: "open", "unconnected" (connect failed)
    socket,
    \* time.time() - self.last_recv_time, seconds, saturating
    since_last_recv,
    \* time.time() - self.last_temperature_check_time, seconds, saturating
    since_temperature_check,
    \* contents of settings.json (a record of the saved settings)
    settings_file,
    \* ---- locals of run()
    pc, buf, connected,
    \* ---- locals of setup_connections(): the countdown and what it has done
    setup,
    \* ---- environment
    \* bytes the sensor has written and the driver has not yet received
    wire,
    \* the estimator's GPS_GLOBAL_ORIGIN report as served by the REST bridge
    gps_origin,
    \* ---- control interface threads (Flask request handlers)
    api,
    \* ---- observation
    \* outbound calls made by the last step, in order
    out,
    \* the last step: its operation, its input and DriverState before it
    ev,
    \* received bytes not yet consumed by a reference frame assembler
    pending,
    \* how many times the origin was set or the frame re-referenced
    established

driverVars == <<status, orientation, enabled, rangefinder, hostname, origin,
                should_send, reset_counter, timestamp, last_attitude,
                current_attitude, socket, since_last_recv,
                since_temperature_check, settings_file>>
loopVars == <<pc, buf, connected, setup>>
envVars == <<wire, gps_origin>>
obsVars == <<out, ev, pending, established>>
vars == <<driverVars, loopVars, envVars, api, obsVars>>

(***************************************************************************)
(* Small helpers                                                           *)
(***************************************************************************)
Min(a, b) == IF a <= b THEN a ELSE b

\* DriverState of the specification: the fields a record handler may touch
DriverState ==
    [enabled |-> enabled, orientation |-> orientation,
     should_send |-> should_send, origin |-> origin,
     reset_counter |-> reset_counter, last_attitude |-> last_attitude,
     current_attitude |-> current_attitude, timestamp |-> timestamp]

\* DvlDriver.current_settings: the saved settings as they are now
current_settings ==
    [enabled |-> enabled, orientation |-> orientation, hostname |-> hostname,
     origin |-> origin, rangefinder |-> rangefinder,
     should_send |-> should_send]

Event(op, data) == [op |-> op, data |-> data, before |-> DriverState]

NoData == [none |-> TRUE]

\* what the last iteration of the loop did: its branch and its reconnect
Previous ==
    IF ev.op = "run" THEN <<ev.step, ev.reconnected>>
    ELSE IF "prev" \in DOMAIN ev THEN ev.prev
    ELSE <<"none", "no">>


(***************************************************************************)
(* REST bridge: the outbound calls of Mavlink2RestHelper, each the         *)
(* sequence of messages it posts                                           *)
(***************************************************************************)
send_vision(position_deltas, rotation_deltas, confidence, dt) ==
    << [msg |-> "VISION_POSITION_DELTA", dt |-> dt,
        position_delta |-> position_deltas, angle_delta |-> rotation_deltas,
        confidence |-> confidence] >>

send_vision_speed_estimate(speed_estimates) ==
    << [msg |-> "VISION_SPEED_ESTIMATE", v |-> speed_estimates] >>

send_vision_position_estimate(ts, position_estimates, attitude_estimates, rc) ==
    << [msg |-> "GLOBAL_VISION_POSITION_ESTIMATE", usec |-> ts * 1000,
        position |-> position_estimates, attitude |-> attitude_estimates,
        reset_counter |-> rc] >>

\* distance in cm; the helper sends nothing for the sentinel -1 m
send_rangefinder(distance) ==
    IF distance = -100 THEN << >>
    ELSE << [msg |-> "DISTANCE_SENSOR", current_distance |-> distance] >>

\* int(x) of a value given in tenths: truncation toward zero
TruncTenths(x) == IF x >= 0 THEN x \div 10 ELSE -((-x) \div 10)

\* lat, lon in 1e-8 degrees; the message carries int(lat * 1e7)
mav_set_gps_origin(lat, lon) ==
    << [msg |-> "SET_GPS_GLOBAL_ORIGIN", latitude |-> TruncTenths(lat),
        longitude |-> TruncTenths(lon)] >>

send_statustext(text) == << [msg |-> "STATUSTEXT", text |-> text] >>

set_param(name, value) == << [msg |-> "PARAM_SET", name |-> name, value |-> value] >>

NavigationMessages ==
    {"VISION_POSITION_DELTA", "VISION_SPEED_ESTIMATE",
     "GLOBAL_VISION_POSITION_ESTIMATE"}

\* the messages of one kind in a sequence of outbound calls
Sent(o, kind) == SelectSeq(o, LAMBDA m : m.msg = kind)

(***************************************************************************)
(* Navigation transform: handle_velocity and handle_position_local         *)
(***************************************************************************)
VelocityKeys == {"vx", "vy", "vz", "altitude", "velocity_valid", "fom", "time"}
AttitudeKeys == {"roll", "pitch", "yaw"}
PositionKeys == {"x", "y", "z"}

\* confidence of a reading from its figure of merit (dvl.py:374)
Confidence(valid, fom) ==
    IF valid THEN (100 * (fom_max - Min(fom_max, fom))) \div fom_max ELSE 0

\* axis remapping of the position delta by mounting orientation
PositionDeltaSwapped(o, dx, dy, dz) ==
    IF o = DVL_DOWN THEN <<dx, dy, dz>>
    ELSE IF o = DVL_FORWARD THEN <<dz, dy, dx>>
    ELSE <<0, 0, 0>>

PositionDelta(o, dx, dy, dz) ==
    IF o = DVL_DOWN THEN <<dx, dy, dz>>
    ELSE IF o = DVL_FORWARD THEN <<dz, dy, -dx>>
    ELSE <<0, 0, 0>>

\* axis remapping of the attitude delta by mounting orientation
AttitudeDelta(o, dRoll, dPitch, dYaw) ==
    IF o = DVL_DOWN THEN <<dRoll, dPitch, dYaw>>
    ELSE IF o = DVL_FORWARD THEN <<dYaw, dPitch, -dRoll>>
    ELSE <<0, 0, 0>>

\* axis remapping of the speed vector by mounting orientation
SpeedVector(o, vx, vy, vz) ==
    IF o = DVL_DOWN THEN <<vx, vy, vz>> ELSE <<vz, vy, -vx>>

\* the navigation message of a valid velocity reading, by send mode
VelocityDispatchAlways(data, confidence) ==
    send_vision(PositionDelta(orientation, data.time * data.vx,
                              data.time * data.vy, data.time * data.vz),
                <<0, 0, 0>>, confidence, data.time * 1000)

VelocityDispatch(data, confidence) ==
    LET dx == data.time * data.vx
        dy == data.time * data.vy
        dz == data.time * data.vz
        dRoll == current_attitude[1] - last_attitude[1]
        dPitch == current_attitude[2] - last_attitude[2]
        dYaw == current_attitude[3] - last_attitude[3]
    IN  IF should_send = POSITION_DELTA
        THEN send_vision(PositionDelta(orientation, dx, dy, dz),
                         AttitudeDelta(orientation, dRoll, dPitch, dYaw),
                         confidence, data.time * 1000)
        ELSE IF should_send = SPEED_ESTIMATE
        THEN send_vision_speed_estimate(
                 SpeedVector(orientation, data.vx, data.vy, data.vz))
        ELSE << >>

\* the result of a handler: did it raise, what it sent, the fields it wrote
Raised(o, cur, last, ts) ==
    [raised |-> TRUE, out |-> o, current_attitude |-> cur,
     last_attitude |-> last, timestamp |-> ts]
Returned(o, cur, last, ts) ==
    [raised |-> FALSE, out |-> o, current_attitude |-> cur,
     last_attitude |-> last, timestamp |-> ts]

\* a handle_velocity that relays the altitude after the navigation
\* message, and from min_altitude on
handle_velocity_range_last(data) ==
    LET rf == IF rangefinder /\ data.altitude >= min_altitude
              THEN send_rangefinder(data.altitude) ELSE << >>
    IN  IF ~data.velocity_valid
        THEN Returned(<< >>, current_attitude, last_attitude, timestamp)
        ELSE Returned(VelocityDispatch(data, Confidence(TRUE, data.fom))
                          \o rf,
                      current_attitude, current_attitude, timestamp)

\* a handle_velocity that moves last_attitude only when it used it
handle_velocity_keeps_last(data) ==
    LET rf == IF rangefinder /\ data.altitude > min_altitude
              THEN send_rangefinder(data.altitude) ELSE << >>
    IN  IF ~data.velocity_valid
        THEN Returned(<< >>, current_attitude, last_attitude, timestamp)
        ELSE Returned(rf \o VelocityDispatch(
                                data, Confidence(TRUE, data.fom)),
                      current_attitude,
                      IF should_send = POSITION_DELTA
                      THEN current_attitude ELSE last_attitude,
                      timestamp)

handle_velocity_no_valid_check(data) ==
    Returned(VelocityDispatch(data, Confidence(TRUE, data.fom)),
             current_attitude, current_attitude, timestamp)

handle_velocity(data) ==
    IF ~(VelocityKeys \subseteq DOMAIN data)
    THEN Raised(<< >>, current_attitude, last_attitude, timestamp)
    ELSE LET valid == data.velocity_valid
             confidence == Confidence(valid, data.fom)
             rf == IF rangefinder /\ data.altitude > min_altitude
                   THEN send_rangefinder(data.altitude) ELSE << >>
         IN  IF ~valid
             THEN Returned(<< >>, current_attitude, last_attitude, timestamp)
             ELSE Returned(rf \o VelocityDispatch(data, confidence),
                           current_attitude, current_attitude, timestamp)

\* a handle_position_local that keeps the attitude it replaces
handle_position_local_shifts(data) ==
    LET att == <<data.roll, data.pitch, data.yaw>>
    IN  Returned(IF should_send = POSITION_ESTIMATE
                 THEN send_vision_position_estimate(
                          data.ts, <<data.x, data.y, data.z>>, att,
                          reset_counter)
                 ELSE << >>,
                 att, current_attitude,
                 IF should_send = POSITION_ESTIMATE THEN data.ts
                 ELSE timestamp)

handle_position_local_any_mode(data) ==
    Returned(send_vision_position_estimate(
                 data.ts, <<data.x, data.y, data.z>>,
                 <<data.roll, data.pitch, data.yaw>>, reset_counter),
             <<data.roll, data.pitch, data.yaw>>, last_attitude, data.ts)

handle_position_local(data) ==
    IF ~(AttitudeKeys \subseteq DOMAIN data)
    THEN Raised(<< >>, current_attitude, last_attitude, timestamp)
    ELSE LET att == <<data.roll, data.pitch, data.yaw>>
         IN  IF should_send # POSITION_ESTIMATE
             THEN Returned(<< >>, att, last_attitude, timestamp)
             ELSE IF ~(PositionKeys \subseteq DOMAIN data)
             THEN Raised(<< >>, att, last_attitude, timestamp)
             ELSE IF "ts" \notin DOMAIN data
             THEN Raised(<< >>, att, last_attitude, timestamp)
             ELSE Returned(send_vision_position_estimate(
                               data.ts, <<data.x, data.y, data.z>>, att,
                               reset_counter),
                           att, last_attitude, data.ts)

(***************************************************************************)
(* Input domains                                                           *)
(***************************************************************************)
\* orientation values a settings file or the constructor may hold
LoadableOrientations == {DVL_DOWN, DVL_FORWARD, 3}
Attitudes == {<<0, 0, 0>>, <<10, 20, 30>>}
VelocityVectors == {<<1, 2, 3>>}
Altitudes == {-100, 5, 6}
Foms == {-100, 0, 100, 400, 800}
Times == {1, 125}

VelocityRecords ==
    { [type |-> "velocity", vx |-> v[1], vy |-> v[2], vz |-> v[3],
       altitude |-> a, velocity_valid |-> ok, fom |-> f, time |-> t] :
      v \in VelocityVectors, a \in Altitudes, ok \in BOOLEAN, f \in Foms,
      t \in Times }

PositionRecords ==
    { [type |-> "position_local", x |-> p[1], y |-> p[2], z |-> p[3],
       roll |-> a[1], pitch |-> a[2], yaw |-> a[3], ts |-> t] :
      p \in {<<4, 5, -6>>}, a \in Attitudes, t \in {7} }

(***************************************************************************)
(* Initial states: the driver as run() enters its loop                     *)
(***************************************************************************)
\* class attributes and __init__, with the settings load_settings may read
InitDriver ==
    /\ status = "Running"
    /\ orientation \in LoadableOrientations
    /\ enabled \in BOOLEAN
    /\ rangefinder \in BOOLEAN
    /\ hostname = HOSTNAME
    /\ origin = <<0, 0>>
    /\ should_send \in MessageType
    /\ reset_counter = 0
    /\ timestamp = 0
    /\ last_attitude = <<0, 0, 0>>
    /\ current_attitude = <<0, 0, 0>>
    /\ socket \in {"open", "unconnected"}
    /\ since_last_recv = 0
    /\ since_temperature_check = temperature_check_interval_s
    /\ settings_file = current_settings

\* no call of setup_connections under way
NoSetup == [timeout |-> 0, asked |-> 0, attempts |-> 0, connected_at |-> 0]

InitLoop ==
    /\ pc = "run"
    /\ buf = << >>
    /\ connected = TRUE
    /\ setup = NoSetup

InitObs ==
    /\ out = << >>
    /\ ev = Event("start", NoData)
    /\ pending = << >>
    /\ established = 0

\* the request handlers of the control interface, none in a call
Callers == {"t1", "t2"}
IdleCall ==
    [pc |-> "idle", lat |-> 0, lon |-> 0, old_time |-> 0,
     old_failed |-> FALSE, attempt |-> 0,
     positions |-> <<0, 0, 0>>, attitudes |-> <<0, 0, 0>>, loaded |-> 0]
InitApi == [c \in Callers |-> IdleCall]

(***************************************************************************)
(* Configuration setters (called by the control interface)                 *)
(***************************************************************************)
\* the mutant of set_orientation stores whatever it is given
set_orientation_unchecked(o) ==
    /\ orientation' = o
    /\ settings_file' = [current_settings EXCEPT !.orientation = o]

set_orientation(o) ==
    IF o \in {DVL_FORWARD, DVL_DOWN}
    THEN /\ orientation' = o
         /\ settings_file' = [current_settings EXCEPT !.orientation = o]
    ELSE UNCHANGED <<orientation, settings_file>>

\* what set_orientation returns (dvl.py:181-185)
set_orientation_returns(o) ==
    IF o \in {DVL_FORWARD, DVL_DOWN} THEN "True" ELSE "False"

\* how set_should_send ends (dvl.py:188-191)
set_should_send_returns(v) ==
    IF v \in MessageType THEN "None" ELSE "ValueError"

SetOrientation ==
    \E o \in LoadableOrientations :
        /\ set_orientation(o)
        /\ out' = << >>
        /\ ev' = [op |-> "set_orientation", data |-> o,
                  before |-> DriverState, saved |-> settings_file,
                  result |-> set_orientation_returns(o)]
        /\ UNCHANGED <<status, enabled, rangefinder, hostname, origin,
                       should_send, reset_counter, timestamp, last_attitude,
                       current_attitude, socket, since_last_recv,
                       since_temperature_check, loopVars, envVars, api,
                       pending, established>>

set_should_send(v) ==
    IF v \in MessageType
    THEN /\ should_send' = v
         /\ settings_file' = [current_settings EXCEPT !.should_send = v]
    ELSE UNCHANGED <<should_send, settings_file>>

SetShouldSend ==
    \E v \in MessageType \cup {"OTHER"} :
        /\ set_should_send(v)
        /\ out' = << >>
        /\ ev' = [op |-> "set_should_send", data |-> v,
                  before |-> DriverState, saved |-> settings_file,
                  result |-> set_should_send_returns(v)]
        /\ UNCHANGED <<status, orientation, enabled, rangefinder, hostname,
                       origin, reset_counter, timestamp, last_attitude,
                       current_attitude, socket, since_last_recv,
                       since_temperature_check, loopVars, envVars, api,
                       pending, established>>

SetUseAsRangefinder ==
    \E enable \in BOOLEAN :
        /\ rangefinder' = enable
        /\ settings_file' = [current_settings EXCEPT !.rangefinder = enable]
        /\ out' = IF enable THEN set_param("RNGFND1_TYPE", 10) ELSE << >>
        /\ ev' = Event("set_use_as_rangefinder", enable)
        /\ UNCHANGED <<status, orientation, enabled, hostname, origin,
                       should_send, reset_counter, timestamp, last_attitude,
                       current_attitude, socket, since_last_recv,
                       since_temperature_check, loopVars, envVars, api,
                       pending, established>>

SetEnabled ==
    \E enable \in BOOLEAN :
        /\ enabled' = enable
        /\ settings_file' = [current_settings EXCEPT !.enabled = enable]
        /\ out' = << >>
        /\ ev' = [op |-> "set_enabled", data |-> enable,
                  before |-> DriverState, prev |-> Previous]
        /\ UNCHANGED <<status, orientation, rangefinder, hostname, origin,
                       should_send, reset_counter, timestamp, last_attitude,
                       current_attitude, socket, since_last_recv,
                       since_temperature_check, loopVars, envVars, api,
                       pending, established>>

(***************************************************************************)
(* The record handlers as operations of the worker                         *)
(***************************************************************************)
\* the worker applies a handler's result; an exception ends the thread
ApplyHandler(r) ==
    /\ out' = r.out
    /\ current_attitude' = r.current_attitude
    /\ last_attitude' = r.last_attitude
    /\ timestamp' = r.timestamp
    /\ pc' = IF r.raised THEN "dead" ELSE pc

HandleVelocity ==
    \E data \in VelocityRecords :
        /\ pc = "run"
        /\ ApplyHandler(handle_velocity(data))
        /\ ev' = Event("handle_velocity", data)
        /\ UNCHANGED <<status, orientation, enabled, rangefinder, hostname,
                       origin, should_send, reset_counter, socket,
                       since_last_recv, since_temperature_check,
                       settings_file, buf, connected, setup, envVars, api,
                       pending,
                       established>>

HandlePositionLocal ==
    \E data \in PositionRecords :
        /\ pc = "run"
        /\ ApplyHandler(handle_position_local(data))
        /\ ev' = Event("handle_position_local", data)
        /\ UNCHANGED <<status, orientation, enabled, rangefinder, hostname,
                       origin, should_send, reset_counter, socket,
                       since_last_recv, since_temperature_check,
                       settings_file, buf, connected, setup, envVars, api,
                       pending,
                       established>>

(***************************************************************************)
(* SpecNav: the navigation transform over all field values and settings    *)
(***************************************************************************)
InitNav ==
    /\ InitDriver
    /\ enabled = TRUE
    /\ socket = "open"
    /\ InitLoop
    /\ wire = << >>
    /\ gps_origin = NoData
    /\ api = InitApi
    /\ InitObs

NextNav ==
    \/ HandleVelocity
    \/ HandlePositionLocal
    \/ SetOrientation
    \/ SetShouldSend
    \/ SetUseAsRangefinder

SpecNav == InitNav /\ [][NextNav]_vars

(***************************************************************************)
(* Properties of the navigation transform                                  *)
(***************************************************************************)
\* the last step was handle_velocity on a record with the given validity
VelocityHandled(valid) ==
    /\ ev.op = "handle_velocity"
    /\ ev.data.velocity_valid = valid

\* C4: a velocity record with velocity_valid = false produces no
\* position-delta, speed-estimate or range-finder message and leaves
\* DriverState (last_attitude included) as it was, whatever its other
\* fields and whatever the send mode, orientation and rangefinder setting.
C4_InvalidVelocityIgnored ==
    VelocityHandled(FALSE) =>
        /\ out = << >>
        /\ DriverState = ev.before

C4_Witness ==
    /\ VelocityHandled(FALSE)
    /\ rangefinder
    /\ ev.data.altitude > min_altitude
    /\ should_send = POSITION_DELTA
    /\ current_attitude # ev.before.last_attitude

\* C5: a valid velocity record yields exactly one position-delta message
\* with dt = time_ms * 1e3 in POSITION_DELTA mode, exactly one
\* speed-estimate message in SPEED_ESTIMATE mode, and no navigation message
\* in POSITION_ESTIMATE mode.
C5_OneMessagePerMode ==
    VelocityHandled(TRUE) =>
        LET deltas == Sent(out, "VISION_POSITION_DELTA")
            speeds == Sent(out, "VISION_SPEED_ESTIMATE")
            estimates == Sent(out, "GLOBAL_VISION_POSITION_ESTIMATE")
        IN  /\ estimates = << >>
            /\ should_send = POSITION_DELTA =>
                   /\ Len(deltas) = 1
                   /\ deltas[1].dt = ev.data.time * 1000
                   /\ speeds = << >>
            /\ should_send = SPEED_ESTIMATE =>
                   /\ Len(speeds) = 1
                   /\ deltas = << >>
            /\ should_send = POSITION_ESTIMATE =>
                   /\ deltas = << >>
                   /\ speeds = << >>

C5_Witness ==
    /\ VelocityHandled(TRUE)
    /\ should_send = POSITION_ESTIMATE
    /\ rangefinder
    /\ ev.data.altitude > min_altitude
    /\ Len(out) = 1

\* C6: the axis remapping is a fixed signed permutation chosen by
\* orientation: DOWN sends (dx,dy,dz), (dRoll,dPitch,dYaw) and (vx,vy,vz);
\* FORWARD sends (dz,dy,-dx), (dYaw,dPitch,-dRoll) and (vz,vy,-vx).
C6_AxisRemap ==
    VelocityHandled(TRUE) =>
        LET d == ev.data
            dx == d.time * d.vx
            dy == d.time * d.vy
            dz == d.time * d.vz
            dRoll == ev.before.current_attitude[1] - ev.before.last_attitude[1]
            dPitch == ev.before.current_attitude[2] - ev.before.last_attitude[2]
            dYaw == ev.before.current_attitude[3] - ev.before.last_attitude[3]
        IN  /\ \A i \in DOMAIN out :
                out[i].msg = "VISION_POSITION_DELTA" =>
                    /\ orientation = DVL_DOWN =>
                           /\ out[i].position_delta = <<dx, dy, dz>>
                           /\ out[i].angle_delta = <<dRoll, dPitch, dYaw>>
                    /\ orientation = DVL_FORWARD =>
                           /\ out[i].position_delta = <<dz, dy, -dx>>
                           /\ out[i].angle_delta = <<dYaw, dPitch, -dRoll>>
            /\ \A i \in DOMAIN out :
                out[i].msg = "VISION_SPEED_ESTIMATE" =>
                    /\ orientation = DVL_DOWN => out[i].v = <<d.vx, d.vy, d.vz>>
                    /\ orientation = DVL_FORWARD =>
                           out[i].v = <<d.vz, d.vy, -d.vx>>

\* the fixture: (1,2,3) under FORWARD yields (3,2,-1)
C6_Witness ==
    /\ VelocityHandled(TRUE)
    /\ orientation = DVL_FORWARD
    /\ <<ev.data.vx, ev.data.vy, ev.data.vz>> = <<1, 2, 3>>
    /\ ev.data.time = 1
    /\ ev.before.current_attitude = <<10, 20, 30>>
    /\ ev.before.last_attitude = <<0, 0, 0>>
    /\ \E i \in DOMAIN out :
           /\ out[i].msg = "VISION_POSITION_DELTA"
           /\ out[i].position_delta = <<3, 2, -1>>
           /\ out[i].angle_delta = <<30, 20, -10>>

\* C7: the confidence of every emitted position-delta message lies in
\* [0,100], for every fom, below 0 and above fom_max included.
C7_ConfidenceInRange ==
    \A i \in DOMAIN out :
        out[i].msg = "VISION_POSITION_DELTA" =>
            /\ out[i].confidence >= 0
            /\ out[i].confidence <= 100

(***************************************************************************)
(* The sensor stream.  A byte of the wire is a token standing for a run of *)
(* bytes of a record's text; "NL" is the newline.  "n1" ends with the      *)
(* first byte of a two-byte UTF-8 character and "n2" starts with its       *)
(* second byte: together they are the text of a string field ("NF").       *)
(***************************************************************************)
NL == "NL"
Openers == {"{v", "{p", "{x", "{"}
Middles == {"AF", "NF"}
Closers == {"VF}", "XF}", "}"}

\* bytes.decode(): fails on a chunk that holds half of a character
DecodeOk(b) ==
    \A i \in DOMAIN b :
        /\ b[i] = "n1" => (i < Len(b) /\ b[i + 1] = "n2")
        /\ b[i] = "n2" => (i > 1 /\ b[i - 1] = "n1")

DecodeText(b) ==
    SelectSeq([i \in DOMAIN b |-> IF b[i] = "n1" THEN "NF" ELSE b[i]],
              LAMBDA c : c # "n2")

\* str.split("\n", 1)
HasLine(s) == \E i \in DOMAIN s : s[i] = NL
FirstNL(s) == CHOOSE i \in DOMAIN s : s[i] = NL /\ \A j \in 1..(i - 1) : s[j] # NL
FirstLine(s) == SubSeq(s, 1, FirstNL(s) - 1)
AfterFirstLine(s) == SubSeq(s, FirstNL(s) + 1, Len(s))

\* the members a token contributes to the decoded object
TokenFields(tok) ==
    CASE tok = "{v" -> [type |-> "velocity"]
      [] tok = "{p" -> [type |-> "position_local"]
      [] tok = "{x" -> [type |-> "other"]
      [] tok = "VF}" -> [vx |-> 1, vy |-> 2, vz |-> 3, altitude |-> 6,
                         velocity_valid |-> TRUE, fom |-> 100, time |-> 125]
      [] tok = "AF" -> [roll |-> 10, pitch |-> 20, yaw |-> 30]
      [] tok = "XF}" -> [x |-> 4, y |-> 5, z |-> 6, ts |-> 7]
      [] tok = "NF" -> [note |-> "non-ascii"]
      [] OTHER -> << >>

RECURSIVE ObjectOf(_)
ObjectOf(line) ==
    IF line = << >> THEN << >>
    ELSE TokenFields(Head(line)) @@ ObjectOf(Tail(line))

\* json.loads of one line: an object, a number, or JSONDecodeError
json_loads(line) ==
    IF line = <<"5">> THEN [kind |-> "number", value |-> 5]
    ELSE IF /\ Len(line) >= 2
            /\ line[1] \in Openers
            /\ line[Len(line)] \in Closers
            /\ \A i \in 2..(Len(line) - 1) : line[i] \in Middles
    THEN [kind |-> "object", value |-> ObjectOf(line)]
    ELSE [kind |-> "error"]

\* Python truthiness of a decoded value ("if not data")
Truthy(v) ==
    IF v.kind = "object" THEN DOMAIN v.value # {} ELSE v.value # 0

\* the lines the sensor may write (without their newline)
SensorLines ==
    { <<"{v", "VF}">>, <<"{v", "}">>,
      <<"{p", "AF", "XF}">>, <<"{p", "AF", "}">>,
      <<"{x", "}">>, <<"{", "VF}">>, <<"{", "}">>,
      <<"5">>, << >> }

\* the lines of a burst: well-formed records, one with a non-ASCII string
BurstLines ==
    { <<"{v", "VF}">>, <<"{p", "AF", "XF}">>, <<"{v", "n1", "n2", "VF}">> }

(***************************************************************************)
(* Connection session: reconnect and the thermal guard                     *)
(***************************************************************************)
\* the age at which the clock of the last receive stops counting
StaleAge == timeout + TickSeconds
DISCOVERED == "192.168.194.95"

\* what the environment does to one reconnect(): whether shutdown raises,
\* what look_for_dvl then finds, whether setup_connections connects
ReconnectOutcomes ==
    { [shutdown |-> "ok", found |-> "same", connect |-> TRUE],
      [shutdown |-> "ok", found |-> "same", connect |-> FALSE],
      [shutdown |-> "raise", found |-> "same", connect |-> TRUE],
      [shutdown |-> "raise", found |-> "same", connect |-> FALSE],
      [shutdown |-> "raise", found |-> "moved", connect |-> TRUE],
      [shutdown |-> "raise", found |-> "never", connect |-> FALSE] }

\* reconnect(): the fields it leaves behind; returned = FALSE when
\* look_for_dvl never finds the sensor and the call does not come back
reconnect(rc, st) ==
    LET host == IF rc.shutdown = "raise" /\ rc.found = "moved"
                THEN DISCOVERED ELSE hostname
        saved == IF host # hostname
                 THEN [current_settings EXCEPT !.hostname = host]
                 ELSE settings_file
    IN  IF rc.shutdown = "raise" /\ rc.found = "never"
        THEN [returned |-> FALSE, success |-> FALSE, socket |-> socket,
              since_last_recv |-> since_last_recv,
              since_temperature_check |-> since_temperature_check,
              status |-> "looking for dvl", hostname |-> hostname,
              settings_file |-> settings_file]
        ELSE IF rc.connect
        THEN [returned |-> TRUE, success |-> TRUE, socket |-> "open",
              since_last_recv |-> 0,
              since_temperature_check |-> since_temperature_check,
              status |-> IF rc.shutdown = "raise" THEN "DVL found" ELSE st,
              hostname |-> host, settings_file |-> saved]
        ELSE [returned |-> TRUE, success |-> FALSE, socket |-> "unconnected",
              since_last_recv |-> StaleAge,
              since_temperature_check |-> temperature_check_interval_s,
              status |-> "Setup connection timed out",
              hostname |-> host, settings_file |-> saved]

\* what the status endpoint answers: a failure, or a temperature
TemperatureReadings ==
    { [ok |-> FALSE, temperature |-> 0],
      [ok |-> TRUE, temperature |-> temperature_too_hot],
      [ok |-> TRUE, temperature |-> temperature_too_hot + 1] }

\* check_temperature(): the clock of the last check, the status, the GETs
\* of /api/v1/about/status it made and what it sent; the mutant has no
\* interval
check_temperature_every_call(temp, st) ==
    IF ~temp.ok
    THEN [since_temperature_check |-> 0, status |-> "error",
          requests |-> 1, out |-> << >>]
    ELSE IF temp.temperature > temperature_too_hot
    THEN [since_temperature_check |-> 0, status |-> "DVL is too hot",
          requests |-> 1, out |-> send_statustext("DVL is too hot")]
    ELSE [since_temperature_check |-> 0, status |-> st,
          requests |-> 1, out |-> << >>]

check_temperature(temp, st) ==
    IF since_temperature_check < temperature_check_interval_s
    THEN [since_temperature_check |-> since_temperature_check,
          status |-> st, requests |-> 0, out |-> << >>]
    ELSE IF ~temp.ok
    THEN [since_temperature_check |-> 0, status |-> "error",
          requests |-> 1, out |-> << >>]
    ELSE IF temp.temperature > temperature_too_hot
    THEN [since_temperature_check |-> 0, status |-> "DVL is too hot",
          requests |-> 1, out |-> send_statustext("DVL is too hot")]
    ELSE [since_temperature_check |-> 0, status |-> st,
          requests |-> 1, out |-> << >>]

(***************************************************************************)
(* The ingestion loop: one iteration of "while True" in run()              *)
(***************************************************************************)
\* what select and recv may give in this iteration
RecvOutcomes ==
    IF socket = "open"
    THEN {[kind |-> "none", n |-> 0], [kind |-> "error", n |-> 0]}
         \cup {[kind |-> "data", n |-> k] :
                  k \in {j \in 1..MaxChunk : /\ j <= Len(wire)
                                              /\ Len(buf) + j <= MaxBuf
                                              /\ Len(pending) + j <= MaxBuf}}
    ELSE IF socket = "closed"
    THEN {[kind |-> "closed", n |-> 0]}
    ELSE {[kind |-> "none", n |-> 0], [kind |-> "error", n |-> 0]}

\* select/recv/decode (dvl.py:449-462): connected, buf, age of last receive
run_recv(rd) ==
    LET chunk == SubSeq(wire, 1, rd.n)
    IN  IF rd.kind = "data" /\ DecodeOk(chunk)
        THEN [connected |-> TRUE, buf |-> buf \o DecodeText(chunk),
              since_last_recv |-> 0]
        ELSE IF rd.kind = "closed"
        THEN [connected |-> TRUE, buf |-> buf,
              since_last_recv |-> since_last_recv]
        ELSE IF rd.kind = "error"
        THEN [connected |-> FALSE, buf |-> buf,
              since_last_recv |-> since_last_recv]
        ELSE [connected |-> connected, buf |-> buf,
              since_last_recv |-> since_last_recv]

\* the handler a typed record is dispatched to (dvl.py:491-494)
dispatch(d) ==
    IF d.type = "velocity" THEN handle_velocity(d)
    ELSE IF d.type = "position_local" THEN handle_position_local(d)
    ELSE Returned(<< >>, current_attitude, last_attitude, timestamp)

\* time.time() - self.last_recv_time > self.timeout (dvl.py:479)
StaleAtTimeout(age) == age >= timeout

Stale(age) == age > timeout

\* dvl.py:449-469: receive, then take one complete line off the buffer and
\* decode it; "step" names the branch the rest of the iteration takes
run_extract(rd) ==
    LET a == run_recv(rd)
        got == IF rd.kind = "data" THEN SubSeq(wire, 1, rd.n) ELSE << >>
        pend1 == pending \o got
        has == HasLine(a.buf)
        parsed == IF has THEN json_loads(FirstLine(a.buf))
                  ELSE [kind |-> "none"]
    IN  [step |-> IF parsed.kind = "error" THEN "JSONDecodeError"
                  ELSE IF ~a.connected THEN "restarting"
                  ELSE IF ~has \/ ~Truthy(parsed)
                  THEN IF Stale(a.since_last_recv)
                       THEN "timeout, restarting" ELSE "idle"
                  ELSE IF parsed.kind # "object" THEN "TypeError"
                  ELSE IF "type" \notin DOMAIN parsed.value THEN "no type"
                  ELSE "dispatch",
         buf |-> IF has THEN AfterFirstLine(a.buf) ELSE a.buf,
         connected |-> a.connected,
         since_last_recv |-> a.since_last_recv,
         data |-> parsed,
         wire |-> SubSeq(wire, Len(got) + 1, Len(wire)),
         pending |-> IF has /\ HasLine(pend1)
                     THEN AfterFirstLine(pend1) ELSE pend1,
         line |-> IF has THEN <<FirstLine(a.buf)>> ELSE << >>,
         expected |-> IF HasLine(pend1) THEN <<FirstLine(pend1)>> ELSE << >>]

\* dvl.py:471-497: the state the iteration leaves
run_iteration(x, rc, temp) ==
    LET base == [pc |-> "run", buf |-> x.buf, connected |-> x.connected,
                 socket |-> socket, since_last_recv |-> x.since_last_recv,
                 since_temperature_check |-> since_temperature_check,
                 status |-> status, hostname |-> hostname,
                 settings_file |-> settings_file,
                 current_attitude |-> current_attitude,
                 last_attitude |-> last_attitude, timestamp |-> timestamp,
                 out |-> << >>, wire |-> x.wire, pending |-> x.pending,
                 reconnected |-> "no"]
        reconnected(r, ignore_result) ==
            [base EXCEPT
               !.pc = IF r.returned THEN "run" ELSE "look_for_dvl",
               !.buf = << >>,
               !.connected = IF ignore_result \/ ~r.returned
                             THEN x.connected ELSE r.success,
               !.socket = r.socket,
               !.since_last_recv = r.since_last_recv,
               !.since_temperature_check = r.since_temperature_check,
               !.status = r.status, !.hostname = r.hostname,
               !.settings_file = r.settings_file,
               !.wire = << >>, !.pending = << >>,
               !.reconnected = IF ~r.returned THEN "lost"
                               ELSE IF r.success THEN "ok" ELSE "failed"]
        handled(h, t) ==
            IF h.raised
            THEN [base EXCEPT !.pc = "dead", !.status = "Running",
                              !.out = h.out,
                              !.current_attitude = h.current_attitude,
                              !.last_attitude = h.last_attitude,
                              !.timestamp = h.timestamp]
            ELSE [base EXCEPT !.status = t.status,
                              !.since_temperature_check =
                                  t.since_temperature_check,
                              !.out = h.out \o t.out,
                              !.current_attitude = h.current_attitude,
                              !.last_attitude = h.last_attitude,
                              !.timestamp = h.timestamp]
    IN  CASE x.step = "JSONDecodeError" -> [base EXCEPT !.pc = "dead"]
          [] x.step = "restarting" ->
                 reconnected(reconnect(rc, "restarting"), TRUE)
          [] x.step = "timeout, restarting" ->
                 reconnected(reconnect(rc, "timeout, restarting"), FALSE)
          [] x.step = "idle" -> base
          [] x.step = "TypeError" ->
                 [base EXCEPT !.pc = "dead", !.status = "Running"]
          [] x.step = "no type" -> [base EXCEPT !.status = "Running"]
          [] OTHER -> handled(dispatch(x.data.value),
                              check_temperature(temp, "Running"))

\* the environment's answers an iteration on branch "step" asks for
ReconnectsAsked(step) ==
    IF step \in {"restarting", "timeout, restarting"}
    THEN ReconnectOutcomes
    ELSE {[shutdown |-> "ok", found |-> "same", connect |-> TRUE]}

ReadingsAsked(step) ==
    IF /\ step = "dispatch"
       /\ since_temperature_check >= temperature_check_interval_s
    THEN TemperatureReadings
    ELSE {[ok |-> FALSE, temperature |-> 0]}

RunIteration ==
    /\ pc = "run"
    /\ enabled
    /\ \E rd \in RecvOutcomes :
       \E x \in {run_extract(rd)} :
       \E rc \in ReconnectsAsked(x.step), temp \in ReadingsAsked(x.step) :
       \E r \in {run_iteration(x, rc, temp)} :
              /\ pc' = r.pc
              /\ buf' = r.buf
              /\ connected' = r.connected
              /\ socket' = r.socket
              /\ since_last_recv' = r.since_last_recv
              /\ since_temperature_check' = r.since_temperature_check
              /\ status' = r.status
              /\ hostname' = r.hostname
              /\ settings_file' = r.settings_file
              /\ current_attitude' = r.current_attitude
              /\ last_attitude' = r.last_attitude
              /\ timestamp' = r.timestamp
              /\ out' = r.out
              /\ wire' = r.wire
              /\ pending' = r.pending
              /\ ev' = [op |-> "run", step |-> x.step, line |-> x.line,
                        expected |-> x.expected, before |-> DriverState,
                        recv |-> rd.kind, connected |-> x.connected,
                        age |-> x.since_last_recv,
                        reconnected |-> r.reconnected, prev |-> Previous]
    /\ UNCHANGED <<orientation, enabled, rangefinder, origin, should_send,
                   reset_counter, gps_origin, api, established, setup>>

\* what an iteration that finds the driver disabled leaves in the buffer,
\* takes off the socket and sends (dvl.py:444-447); the mutant keeps the
\* buffer
run_disabled_keeps_buf ==
    [buf |-> buf, read |-> 0, out |-> << >>]

run_disabled ==
    [buf |-> << >>, read |-> 0, out |-> << >>]

\* an iteration that finds the driver disabled (dvl.py:444-447)
RunDisabled ==
    /\ pc = "run"
    /\ ~enabled
    /\ buf' = run_disabled.buf
    /\ wire' = SubSeq(wire, run_disabled.read + 1, Len(wire))
    /\ pending' = << >>
    /\ out' = run_disabled.out
    /\ ev' = [op |-> "run", step |-> "disabled", line |-> << >>,
              expected |-> << >>, before |-> DriverState,
              recv |-> "none", connected |-> connected, age |-> 0,
              reconnected |-> "no", prev |-> Previous,
              dropped |-> buf, unread |-> wire]
    /\ UNCHANGED <<driverVars, pc, connected, setup, gps_origin, api,
                   established>>

(***************************************************************************)
(* Environment of the loop: the sensor and the clock                       *)
(***************************************************************************)
\* the sensor writes a line once the previous one was received
SensorSend ==
    \E l \in SensorLines :
        /\ socket = "open"
        /\ wire = << >>
        /\ wire' = l \o <<NL>>
        /\ UNCHANGED <<driverVars, loopVars, gps_origin, api, obsVars>>

\* the sensor writes lines back to back, as far as the socket takes them
SensorBurst ==
    \E l \in BurstLines :
        /\ socket = "open"
        /\ Len(wire) + Len(l) + 1 <= MaxWire
        /\ wire' = wire \o l \o <<NL>>
        /\ UNCHANGED <<driverVars, loopVars, gps_origin, api, obsVars>>

\* the sensor closes the connection once everything it wrote was read
SensorClose ==
    /\ socket = "open"
    /\ wire = << >>
    /\ socket' = "closed"
    /\ UNCHANGED <<status, orientation, enabled, rangefinder, hostname, origin,
                   should_send, reset_counter, timestamp, last_attitude,
                   current_attitude, since_last_recv,
                   since_temperature_check, settings_file, loopVars, envVars,
                   api, obsVars>>

\* time passes: d seconds on both clocks
TickBy(d) ==
    /\ \/ since_last_recv < StaleAge
       \/ since_temperature_check < temperature_check_interval_s
    /\ since_last_recv' = Min(since_last_recv + d, StaleAge)
    /\ since_temperature_check' =
           Min(since_temperature_check + d, temperature_check_interval_s)
    /\ UNCHANGED <<status, orientation, enabled, rangefinder, hostname, origin,
                   should_send, reset_counter, timestamp, last_attitude,
                   current_attitude, socket, settings_file, loopVars, envVars,
                   api, obsVars>>

\* a short pause of the worker or of the sensor
Tick == TickBy(TickSeconds)

\* a pause as long as the interval of the thermal guard
LongTick == TickBy(temperature_check_interval_s)

(***************************************************************************)
(* Spec: the ingestion loop with its sensor, clock and enable switch       *)
(***************************************************************************)
Init ==
    /\ InitDriver
    /\ orientation = DVL_DOWN
    /\ rangefinder = TRUE
    /\ InitLoop
    /\ wire = << >>
    /\ gps_origin = NoData
    /\ api = InitApi
    /\ InitObs

Next ==
    \/ RunIteration
    \/ RunDisabled
    \/ SensorSend
    \/ SensorClose
    \/ LongTick
    \/ SetEnabled

Spec == Init /\ [][Next]_vars

(***************************************************************************)
(* Properties of the ingestion loop                                        *)
(***************************************************************************)
\* the last step was an iteration of the loop that took a line off the buffer
LineTaken == ev.op = "run" /\ ev.line # << >>

\* the value the line of the last iteration decodes to
LineValue == json_loads(ev.line[1])

\* the decoded line is an object with a type member
Typed(v) == v.kind = "object" /\ "type" \in DOMAIN v.value

\* the fields the handler of a typed record reads
FieldsRead(d) ==
    IF d.type = "velocity" THEN VelocityKeys
    ELSE IF d.type = "position_local"
    THEN IF should_send = POSITION_ESTIMATE
         THEN AttitudeKeys \cup PositionKeys \cup {"ts"} ELSE AttitudeKeys
    ELSE {}

\* C1: a buffered line that fails to parse as JSON, the empty line included,
\* is dropped for that record only: the exception does not propagate and the
\* worker loop keeps running.
C1_ParseFailureDropped ==
    (LineTaken /\ LineValue.kind = "error") => pc = "run"

\* C2: a velocity or position_local record that lacks a field its handler
\* reads is dropped: no outbound message, DriverState unchanged, and the loop
\* goes on.
C2_MissingFieldDropped ==
    (/\ LineTaken
     /\ Typed(LineValue)
     /\ ~(FieldsRead(LineValue.value) \subseteq DOMAIN LineValue.value)) =>
        /\ pc = "run"
        /\ out = << >>
        /\ DriverState = ev.before

\* C9: a line that decodes as JSON but has no type, or a type other than
\* velocity and position_local, is ignored without error: no navigation
\* message, DriverState unchanged, and the loop continues.
C9_UntypedIgnored ==
    (/\ LineTaken
     /\ LineValue.kind # "error"
     /\ \/ ~Typed(LineValue)
        \/ LineValue.value.type \notin {"velocity", "position_local"}) =>
        /\ pc = "run"
        /\ \A i \in DOMAIN out : out[i].msg \notin NavigationMessages
        /\ DriverState = ev.before

(***************************************************************************)
(* SpecFrame: the frame assembler under a sensor writing back to back      *)
(***************************************************************************)
InitFrame ==
    /\ InitDriver
    /\ orientation = DVL_DOWN
    /\ enabled = TRUE
    /\ rangefinder = FALSE
    /\ socket = "open"
    /\ InitLoop
    /\ wire = << >>
    /\ gps_origin = NoData
    /\ api = InitApi
    /\ InitObs

NextFrame ==
    \/ RunIteration
    \/ SensorBurst

SpecFrame == InitFrame /\ [][NextFrame]_vars

\* the text of the lines a whole-stream decode gives
Decoded(ls) == [i \in DOMAIN ls |-> DecodeText(ls[i])]

\* the last step was an iteration that neither reconnected nor was disabled
Assembling ==
    /\ ev.op = "run"
    /\ ev.step \notin {"restarting", "timeout, restarting", "disabled"}

\* C3: with no disconnect, staleness timeout or disable in between, the
\* records the loop dispatches are those a whole-stream split gives, whatever
\* the sizes of the chunks: an iteration takes a line off the buffer exactly
\* when the stream received so far holds a complete undispatched line, and it
\* is that line.
C3_ChunkSizeIndependence ==
    Assembling => ev.line = Decoded(ev.expected)

(***************************************************************************)
(* Origin handshake: set_current_position called by request handlers of    *)
(* the control interface, each a thread of its own, stepping at its REST   *)
(* calls, its sleeps and the read and the write of "reset_counter += 1"    *)
(***************************************************************************)
\* range(5) of has_origin_set
PollAttempts == 5
\* largest time_usec of an origin report
MaxTime == 2
\* positions a caller may give, (lat, lon)
GeoPoints == {<<1005, -2005>>}
\* origins the estimator may report, (latitude, longitude) in 1e-7 degrees
EstimatorOrigins == {<<100, -200>>}
\* what the vehicle answers for /VFR_HUD/message/alt and /ATTITUDE/message
VehicleDepth == 3
VehicleAttitude == <<1, 2, 3>>

CallStep(step) ==
    [op |-> "set_current_position", step |-> step]

\* lat_lng_to_NE_XY_cm: x is the latitude offset; y is the longitude offset
\* under the scale of the mean latitude, kept with its two arguments
lat_lng_to_NE_XY_cm(lat, lon) ==
    <<lat - origin[1], <<lat + origin[1], lon - origin[2]>> >>

\* a request arrives; has_origin_set reads the time of the last report
\* (dvl.py:211-217), 0 when the read fails
SetCurrentPosition(c) ==
    /\ api[c].pc = "idle"
    /\ reset_counter < MaxReset
    /\ established < MaxReset
    /\ \E g \in GeoPoints, ok \in BOOLEAN :
           api' = [api EXCEPT ![c] =
                      [IdleCall EXCEPT
                         !.pc = "poll", !.lat = g[1], !.lon = g[2],
                         !.old_time = IF ok /\ gps_origin # NoData
                                      THEN gps_origin.time_usec ELSE 0,
                         !.old_failed = ~ok]]
    /\ out' = << >>
    /\ ev' = CallStep("has_origin_set")
    /\ UNCHANGED <<driverVars, loopVars, envVars, pending, established>>

\* one attempt of has_origin_set (dvl.py:219-232) by a call in state a:
\* request, sleep, read the report (ok: the read and its decoding succeed)
poll_origin_unbounded(a, ok) ==
    IF ~ok \/ gps_origin = NoData
    THEN [pc |-> "set_gps_origin", attempt |-> a.attempt, origin |-> origin,
          step |-> "failed"]
    ELSE IF gps_origin.time_usec # a.old_time
    THEN [pc |-> "estimate", attempt |-> a.attempt,
          origin |-> <<gps_origin.latitude * 10, gps_origin.longitude * 10>>,
          step |-> "changed"]
    ELSE [pc |-> "poll", attempt |-> Min(a.attempt + 1, PollAttempts),
          origin |-> origin, step |-> "same"]

poll_origin(a, ok) ==
    IF ~ok \/ gps_origin = NoData
    THEN [pc |-> "set_gps_origin", attempt |-> a.attempt, origin |-> origin,
          step |-> "failed"]
    ELSE IF gps_origin.time_usec # a.old_time
    THEN [pc |-> "estimate", attempt |-> a.attempt,
          origin |-> <<gps_origin.latitude * 10, gps_origin.longitude * 10>>,
          step |-> "changed"]
    ELSE IF a.attempt + 1 = PollAttempts
    THEN [pc |-> "set_gps_origin", attempt |-> a.attempt, origin |-> origin,
          step |-> "exhausted"]
    ELSE [pc |-> "poll", attempt |-> a.attempt + 1, origin |-> origin,
          step |-> "same"]

PollOrigin(c) ==
    /\ api[c].pc = "poll"
    /\ \E ok \in BOOLEAN :
       \E r \in {poll_origin(api[c], ok)} :
           /\ api' = [api EXCEPT ![c].pc = r.pc, ![c].attempt = r.attempt]
           /\ origin' = r.origin
           /\ ev' = CallStep(r.step)
    /\ out' = << >>
    /\ UNCHANGED <<status, orientation, enabled, rangefinder, hostname,
                   should_send, reset_counter, timestamp, last_attitude,
                   current_attitude, socket, since_last_recv,
                   since_temperature_check, settings_file, loopVars, envVars,
                   pending, established>>

\* no origin was seen: set_gps_origin (dvl.py:241, 257-263)
SetGpsOrigin(c) ==
    /\ api[c].pc = "set_gps_origin"
    /\ out' = mav_set_gps_origin(api[c].lat, api[c].lon)
    /\ origin' = <<api[c].lat, api[c].lon>>
    /\ settings_file' = [current_settings EXCEPT
                            !.origin = <<api[c].lat, api[c].lon>>]
    /\ established' = established + 1
    /\ api' = [api EXCEPT ![c] = IdleCall]
    /\ ev' = CallStep("set_gps_origin")
    /\ UNCHANGED <<status, orientation, enabled, rangefinder, hostname,
                   should_send, reset_counter, timestamp, last_attitude,
                   current_attitude, socket, since_last_recv,
                   since_temperature_check, loopVars, envVars, pending>>

\* an origin was seen: the offset from it, the depth and the attitude
\* (dvl.py:245-251); a failed read raises out of the call
EstimatePosition(c) ==
    /\ api[c].pc = "estimate"
    /\ \E ok \in BOOLEAN :
           LET xy == lat_lng_to_NE_XY_cm(api[c].lat, api[c].lon)
           IN  /\ api' = IF ok
                         THEN [api EXCEPT
                                 ![c].pc = "load",
                                 ![c].positions =
                                     <<xy[1], xy[2], -VehicleDepth>>,
                                 ![c].attitudes = VehicleAttitude]
                         ELSE [api EXCEPT ![c] = IdleCall]
               /\ ev' = CallStep(IF ok THEN "estimate" ELSE "raised")
    /\ out' = << >>
    /\ UNCHANGED <<driverVars, loopVars, envVars, pending, established>>

\* self.reset_counter += 1 (dvl.py:252): the read
LoadResetCounter(c) ==
    /\ api[c].pc = "load"
    /\ api' = [api EXCEPT ![c].pc = "store", ![c].loaded = reset_counter]
    /\ out' = << >>
    /\ ev' = CallStep("load")
    /\ UNCHANGED <<driverVars, loopVars, envVars, pending, established>>

\* self.reset_counter += 1 (dvl.py:252): the write
StoreResetCounter(c) ==
    /\ api[c].pc = "store"
    /\ reset_counter' = api[c].loaded + 1
    /\ established' = established + 1
    /\ api' = [api EXCEPT ![c].pc = "send"]
    /\ out' = << >>
    /\ ev' = CallStep("store")
    /\ UNCHANGED <<status, orientation, enabled, rangefinder, hostname, origin,
                   should_send, timestamp, last_attitude, current_attitude,
                   socket, since_last_recv, since_temperature_check,
                   settings_file, loopVars, envVars, pending>>

\* send_vision_position_estimate (dvl.py:253-255)
SendCurrentPosition(c) ==
    /\ api[c].pc = "send"
    /\ out' = send_vision_position_estimate(
                  timestamp, api[c].positions, api[c].attitudes, reset_counter)
    /\ api' = [api EXCEPT ![c] = IdleCall]
    /\ ev' = [op |-> "set_current_position", step |-> "send",
              loaded |-> api[c].loaded]
    /\ UNCHANGED <<driverVars, loopVars, envVars, pending, established>>

\* the estimator publishes a report of its origin, with a later time
EstimatorPublish ==
    \E p \in EstimatorOrigins :
        LET t == IF gps_origin = NoData THEN 0 ELSE gps_origin.time_usec
        IN  /\ t < MaxTime
            /\ gps_origin' = [time_usec |-> t + 1, latitude |-> p[1],
                              longitude |-> p[2]]
            /\ UNCHANGED <<driverVars, loopVars, wire, api, obsVars>>

(***************************************************************************)
(* SpecOrigin: the origin handshake beside the worker handling             *)
(* position_local records                                                  *)
(***************************************************************************)
InitOrigin ==
    /\ InitDriver
    /\ orientation = DVL_DOWN
    /\ enabled = TRUE
    /\ rangefinder = FALSE
    /\ socket = "open"
    /\ InitLoop
    /\ wire = << >>
    /\ gps_origin = NoData
    /\ api = InitApi
    /\ InitObs

NextOrigin ==
    \/ \E c \in Callers : SetCurrentPosition(c)
    \/ \E c \in Callers : PollOrigin(c)
    \/ \E c \in Callers : SetGpsOrigin(c)
    \/ \E c \in Callers : EstimatePosition(c)
    \/ \E c \in Callers : LoadResetCounter(c)
    \/ \E c \in Callers : StoreResetCounter(c)
    \/ \E c \in Callers : SendCurrentPosition(c)
    \/ EstimatorPublish
    \/ HandlePositionLocal

SpecOrigin == InitOrigin /\ [][NextOrigin]_vars

(***************************************************************************)
(* Properties of the origin handshake and of position_local records        *)
(***************************************************************************)
\* the last step of the driver was handle_position_local
PositionHandled == ev.op = "handle_position_local"

\* C8: for every position_local record current_attitude becomes the record's
\* (roll, pitch, yaw) in every send mode; a position-estimate message is
\* sent if and only if should_send is POSITION_ESTIMATE, and it carries the
\* record's x, y, z, attitude and ts with the current reset_counter; in the
\* other two modes nothing is sent and timestamp, last_attitude,
\* reset_counter and origin are unchanged.
C8_PositionLocal ==
    PositionHandled =>
        LET d == ev.data
            att == <<d.roll, d.pitch, d.yaw>>
        IN  /\ current_attitude = att
            /\ should_send = POSITION_ESTIMATE =>
                   out = << [msg |-> "GLOBAL_VISION_POSITION_ESTIMATE",
                             usec |-> d.ts * 1000,
                             position |-> <<d.x, d.y, d.z>>,
                             attitude |-> att,
                             reset_counter |-> reset_counter] >>
            /\ should_send # POSITION_ESTIMATE =>
                   /\ out = << >>
                   /\ timestamp = ev.before.timestamp
                   /\ last_attitude = ev.before.last_attitude
                   /\ reset_counter = ev.before.reset_counter
                   /\ origin = ev.before.origin

\* a record handled in POSITION_ESTIMATE mode after the frame was
\* re-referenced: the message carries the raised reset_counter
C8_Witness ==
    /\ PositionHandled
    /\ should_send = POSITION_ESTIMATE
    /\ reset_counter > 0
    /\ ev.before.current_attitude # current_attitude
    /\ Len(out) = 1
    /\ out[1].reset_counter = reset_counter

\* C10: reset_counter increases by exactly one each time the origin is
\* established or re-established and changes at no other time: it always
\* equals the number of times a set_current_position has set the origin or
\* re-referenced the frame.
C10_ResetCounterCountsOrigins ==
    reset_counter = established

\* the report a poll reads carries the time seen before the probe
SameReport(c) ==
    gps_origin # NoData /\ gps_origin.time_usec = api[c].old_time

\* C11: has_origin_set issues at most five origin-report requests; when the
\* fifth poll still reads the timestamp seen before the probe it returns
\* false; it returns true only on a poll whose timestamp differs, and the
\* stored origin then is that report's latitude and longitude; a poll that
\* does not return true leaves the stored origin alone.
C11_HasOriginSet ==
    /\ [](\A c \in Callers : api[c].pc = "poll" => api[c].attempt < PollAttempts)
    /\ [][\A c \in Callers :
            (api[c].pc = "poll" /\ api'[c] # api[c]) =>
                /\ api'[c].pc = "estimate" =>
                       /\ ~SameReport(c)
                       /\ gps_origin # NoData
                       /\ origin' = <<gps_origin.latitude * 10,
                                      gps_origin.longitude * 10>>
                /\ api'[c].pc # "estimate" => origin' = origin
                /\ (SameReport(c) /\ api[c].attempt = PollAttempts - 1) =>
                       api'[c].pc = "set_gps_origin"]_vars

\* a probe that returned false after five polls of an unchanged report
C11_Witness ==
    /\ ev.op = "set_current_position"
    /\ ev.step = "exhausted"
    /\ \E c \in Callers :
           /\ api[c].pc = "set_gps_origin"
           /\ api[c].attempt = PollAttempts - 1
           /\ SameReport(c)
           /\ origin # <<gps_origin.latitude * 10, gps_origin.longitude * 10>>

\* has_origin_set of caller c has returned True
OriginSeen(c) == api[c].pc \in {"estimate", "load", "store", "send"}

\* C12: has_origin_set returns false, and so never writes the stored origin,
\* when a query to the estimator fails at any point of the handshake, the
\* initial read of the previous origin-update timestamp included: no call
\* whose initial read failed, and no call whose last poll failed, gets true.
C12_FailedQueryReturnsFalse ==
    \A c \in Callers :
        /\ api[c].old_failed => ~OriginSeen(c)
        /\ (ev.op = "set_current_position" /\ ev.step = "failed") =>
               api[c].pc # "estimate"

\* the last step ended a call of set_current_position
CallEnded ==
    /\ ev.op = "set_current_position"
    /\ ev.step \in {"set_gps_origin", "send", "raised"}

\* C13: each call of set_current_position issues exactly one of two outbound
\* commands: when has_origin_set found no origin, a set-origin command with
\* (lat, lon), after which the stored origin is (lat, lon); when it found
\* one, a position-estimate message carrying the reset_counter this call
\* incremented.
C13_OneCommandPerCall ==
    CallEnded =>
        /\ Len(out) = 1
        /\ ev.step = "set_gps_origin" =>
               /\ out[1].msg = "SET_GPS_GLOBAL_ORIGIN"
               /\ origin \in GeoPoints
               /\ out[1].latitude = TruncTenths(origin[1])
               /\ out[1].longitude = TruncTenths(origin[2])
        /\ ev.step = "send" =>
               /\ out[1].msg = "GLOBAL_VISION_POSITION_ESTIMATE"
               /\ out[1].reset_counter = ev.loaded + 1

(***************************************************************************)
(* SpecSession: the connection session of an enabled driver, with a clock  *)
(* fine enough to tell an age of timeout seconds from a longer one         *)
(***************************************************************************)
InitSession ==
    /\ InitDriver
    /\ orientation = DVL_DOWN
    /\ enabled = TRUE
    /\ rangefinder = FALSE
    /\ should_send = POSITION_DELTA
    /\ InitLoop
    /\ wire = << >>
    /\ gps_origin = NoData
    /\ api = InitApi
    /\ InitObs

NextSession ==
    \/ RunIteration
    \/ SensorSend
    \/ SensorClose
    \/ Tick

SpecSession == InitSession /\ [][NextSession]_vars

\* the last step was an iteration of the enabled loop whose socket had
\* nothing to read and whose buffer held no complete line
SilentIteration ==
    /\ ev.op = "run"
    /\ ev.step # "disabled"
    /\ ev.recv = "none"
    /\ ev.line = << >>

\* the iteration called reconnect()
Reconnecting == ev.reconnected # "no"

\* C14: when the sensor is silent and nothing was received for more than
\* timeout seconds, the first iteration that finds no complete line clears
\* the buffer and reconnects, as a stale session if it was connected; with
\* the last receive timeout seconds old or less, a connected session is
\* left alone.
C14_StaleSessionReconnects ==
    SilentIteration =>
        /\ ev.age > timeout =>
               /\ Reconnecting
               /\ buf = << >>
               /\ ev.connected => ev.step = "timeout, restarting"
        /\ (ev.age <= timeout /\ ev.connected) => ~Reconnecting

\* a connected session that has received nothing for longer than timeout
C14_Witness ==
    /\ SilentIteration
    /\ ev.connected
    /\ ev.age > timeout
    /\ ev.step = "timeout, restarting"
    /\ ev.expected = << >>
    /\ buf = << >>

\* an iteration that follows one that found the session stale, and itself
\* finds nothing to read and no socket error
AfterStaleReconnect ==
    /\ ev.op = "run"
    /\ ev.step # "disabled"
    /\ ev.prev[1] = "timeout, restarting"
    /\ ev.recv = "none"

C16_SuccessfulReconnectHolds ==
    /\ (ev.op = "run" /\ ev.reconnected = "ok") => connected
    /\ (/\ ev.op = "run"
        /\ ev.step # "disabled"
        /\ ev.prev[2] = "ok"
        /\ ev.recv = "none"
        /\ ev.age <= timeout) => ~Reconnecting

(***************************************************************************)
(* setup_connections: the connection attempts                              *)
(***************************************************************************)
\* the largest countdown a call starts from
MaxAttempts == 3

TIMED_OUT == "Setup connection timed out"

\* one pass of the body of `while timeout > 0` (dvl.py:330-337) that does
\* not return: the attempt raised socket.error; the mutant forgets the
\* countdown
setup_attempt_no_countdown(s) ==
    [s EXCEPT !.attempts = @ + 1]

setup_attempt(s) ==
    [s EXCEPT !.timeout = @ - 1, !.attempts = @ + 1]

\* setup_connections(timeout = N) is entered
SetupConnections ==
    /\ pc = "call"
    /\ \E N \in 0..MaxAttempts :
           setup' = [timeout |-> N, asked |-> N, attempts |-> 0,
                     connected_at |-> 0]
    /\ pc' = "setup_connections"
    /\ ev' = [op |-> "setup_connections", step |-> "enter"]
    /\ out' = << >>
    /\ UNCHANGED <<driverVars, buf, connected, envVars, api, pending,
                   established>>

\* one attempt: socket(), connect(), setblocking(0) (dvl.py:330-337)
SetupAttempt ==
    /\ pc = "setup_connections"
    /\ setup.timeout > 0
    /\ \E ok \in BOOLEAN :
           IF ok
           THEN /\ socket' = "open"
                /\ setup' = [setup EXCEPT !.attempts = @ + 1,
                                          !.connected_at = setup.attempts + 1]
                /\ pc' = "returned True"
                /\ ev' = [op |-> "setup_connections", step |-> "connected"]
           ELSE /\ socket' = "unconnected"
                /\ setup' = setup_attempt(setup)
                /\ pc' = pc
                /\ ev' = [op |-> "setup_connections", step |-> "socket.error"]
    /\ out' = << >>
    /\ UNCHANGED <<status, orientation, enabled, rangefinder, hostname, origin,
                   should_send, reset_counter, timestamp, last_attitude,
                   current_attitude, since_last_recv, since_temperature_check,
                   settings_file, buf, connected, envVars, api, pending,
                   established>>

\* the countdown has run out (dvl.py:338-339)
SetupTimedOut ==
    /\ pc = "setup_connections"
    /\ ~(setup.timeout > 0)
    /\ status' = TIMED_OUT
    /\ pc' = "returned False"
    /\ ev' = [op |-> "setup_connections", step |-> "timed out"]
    /\ out' = << >>
    /\ UNCHANGED <<orientation, enabled, rangefinder, hostname, origin,
                   should_send, reset_counter, timestamp, last_attitude,
                   current_attitude, socket, since_last_recv,
                   since_temperature_check, settings_file, buf, connected,
                   setup, envVars, api, pending, established>>

\* run() and reconnect() call setup_connections with whatever the driver
\* state is at that time
InitConnect ==
    /\ InitDriver
    /\ pc = "call"
    /\ buf = << >>
    /\ connected \in BOOLEAN
    /\ setup = NoSetup
    /\ wire = << >>
    /\ gps_origin = NoData
    /\ api = InitApi
    /\ InitObs

NextConnect ==
    \/ SetupConnections
    \/ SetupAttempt
    \/ SetupTimedOut

\* the thread that called setup_connections keeps running
SpecConnect ==
    /\ InitConnect
    /\ [][NextConnect]_vars
    /\ WF_vars(SetupConnections)
    /\ WF_vars(SetupAttempt)
    /\ WF_vars(SetupTimedOut)

SetupReturned == pc \in {"returned True", "returned False"}

\* C17: setup_connections(timeout = N) always terminates: it makes at most
\* N connection attempts, returns success at the first attempt that
\* connects, and after N failed attempts sets the status to the connection
\* failure and returns failure.
C17_SetupConnectionsTerminates ==
    /\ [](setup.attempts <= setup.asked)
    /\ [](pc = "setup_connections" => setup.connected_at = 0)
    /\ [](pc = "returned True" =>
              /\ setup.connected_at = setup.attempts
              /\ setup.attempts >= 1
              /\ socket = "open")
    /\ [](pc = "returned False" =>
              /\ setup.connected_at = 0
              /\ setup.attempts = setup.asked
              /\ status = TIMED_OUT)
    /\ <>SetupReturned

\* a call that failed twice and connected at its third and last attempt
C17_Witness ==
    /\ pc = "returned True"
    /\ setup.asked = MaxAttempts
    /\ setup.connected_at = MaxAttempts

(***************************************************************************)
(* The enable switch                                                       *)
(***************************************************************************)
\* the last iteration of the loop found the driver disabled
DisabledIteration == ev.op = "run" /\ ev.step = "disabled"

\* C18: every iteration of the loop acts on the enabled flag as it stands
\* when the iteration starts; an iteration that finds enabled = false takes
\* nothing off the socket, changes no driver state, sends nothing and
\* leaves the buffer empty, and the buffer is still empty when the first
\* iteration after it starts.
C18_DisabledLoopIdle ==
    /\ ev.op = "run" => (ev.step = "disabled" <=> ~ev.before.enabled)
    /\ DisabledIteration =>
           /\ Len(wire) >= Len(ev.unread)
           /\ SubSeq(wire, 1, Len(ev.unread)) = ev.unread
           /\ DriverState = ev.before
           /\ out = << >>
    /\ Previous[1] = "disabled" => buf = << >>

\* a disabled iteration that dropped a partly received record while the
\* socket had more to read
C18_Witness ==
    /\ DisabledIteration
    /\ ev.dropped # << >>
    /\ ev.unread # << >>
    /\ wire = ev.unread
    /\ buf = << >>

(***************************************************************************)
(* The thermal guard                                                       *)
(***************************************************************************)
\* a STATUSTEXT alert among the outbound calls
Alerts(o) == Sent(o, "STATUSTEXT")

\* one call of check_temperature(), at any time, with whatever the status
\* endpoint would answer
CheckTemperature ==
    /\ pc = "run"
    /\ \E temp \in TemperatureReadings :
       \E r \in {check_temperature(temp, status)} :
           /\ since_temperature_check' = r.since_temperature_check
           /\ status' = r.status
           /\ out' = r.out
           /\ ev' = [op |-> "check_temperature", reading |-> temp,
                     elapsed |-> since_temperature_check,
                     requests |-> r.requests, was |-> status]
    /\ UNCHANGED <<orientation, enabled, rangefinder, hostname, origin,
                   should_send, reset_counter, timestamp, last_attitude,
                   current_attitude, socket, since_last_recv, settings_file,
                   loopVars, envVars, api, pending, established>>

InitGuard ==
    /\ InitDriver
    /\ InitLoop
    /\ wire = << >>
    /\ gps_origin = NoData
    /\ api = InitApi
    /\ InitObs

NextGuard ==
    \/ CheckTemperature
    \/ Tick

SpecGuard == InitGuard /\ [][NextGuard]_vars

\* C19: check_temperature asks the sensor for its status only when at least
\* temperature_check_interval_s have passed since it last asked, however
\* often it is called, and it alerts only in a call that asked and was
\* answered with a temperature above temperature_too_hot.
C19_ThermalGuardRateLimited ==
    ev.op = "check_temperature" =>
        /\ ev.requests <= 1
        /\ ev.requests = 1 => ev.elapsed >= temperature_check_interval_s
        /\ Alerts(out) # << >> =>
               /\ ev.requests = 1
               /\ ev.reading.ok
               /\ ev.reading.temperature > temperature_too_hot
               /\ Len(Alerts(out)) = 1

\* a second alert, one interval after the first
C19_Witness ==
    /\ ev.op = "check_temperature"
    /\ ev.was = "DVL is too hot"
    /\ ev.elapsed = temperature_check_interval_s
    /\ ev.requests = 1
    /\ Alerts(out) # << >>

\* the branches of an iteration on which the stream gives the loop no
\* typed record: nothing to read, a reconnect, a record without "type"
Recordless == {"idle", "restarting", "timeout, restarting", "no type"}

\* C20: the thermal guard runs on its own interval, independently of the
\* stream: an iteration of the enabled loop that starts when
\* temperature_check_interval_s or more have passed since the last check
\* makes the check, also when the sensor is silent, the session is stale or
\* reconnecting, or only untyped records arrive.
C20_GuardIndependentOfStream ==
    [][(/\ pc = "run"
        /\ enabled
        /\ since_temperature_check >= temperature_check_interval_s
        /\ ev' # ev
        /\ ev'.op = "run"
        /\ ev'.step \in Recordless)
       => since_temperature_check' < temperature_check_interval_s]_vars

(***************************************************************************)
(* Configuration calls                                                     *)
(***************************************************************************)
\* the last step was a configuration call given a value it does not accept
RejectedCall ==
    \/ ev.op = "set_orientation" /\ ev.data \notin {DVL_DOWN, DVL_FORWARD}
    \/ ev.op = "set_should_send" /\ ev.data \notin MessageType

\* C21: set_orientation with a value other than DOWN or FORWARD returns
\* False, set_should_send with a value that is no message type raises
\* ValueError, and either call leaves orientation, should_send and the
\* persisted settings as they were.
C21_InvalidValueRejected ==
    RejectedCall =>
        /\ ev.op = "set_orientation" => ev.result = "False"
        /\ ev.op = "set_should_send" => ev.result = "ValueError"
        /\ orientation = ev.before.orientation
        /\ should_send = ev.before.should_send
        /\ settings_file = ev.saved

\* orientation 3 is refused after FORWARD had been set and saved
C21_Witness ==
    /\ ev.op = "set_orientation"
    /\ ev.data = 3
    /\ ev.result = "False"
    /\ orientation = DVL_FORWARD
    /\ settings_file.orientation = DVL_FORWARD

\* the last step completed a configuration operation, and no other call
\* of the control interface is under way
ConfigurationCompleted ==
    /\ \A c \in Callers : api[c].pc = "idle"
    /\ \/ ev.op \in {"set_enabled", "set_orientation", "set_should_send",
                     "set_use_as_rangefinder"}
       \/ ev.op = "set_current_position"
          /\ ev.step \in {"set_gps_origin", "send"}

\* C22: after every configuration operation that completes, the persisted
\* settings equal the in-memory enabled, orientation, hostname, origin,
\* rangefinder and should_send.
C22_SettingsFollowState ==
    ConfigurationCompleted => settings_file = current_settings

\* the stored origin has been changed by has_origin_set, and neither
\* branch of set_current_position has yet got to its end: the counter is
\* where it started
OriginAhead ==
    /\ origin # <<0, 0>>
    /\ established = 0
    /\ reset_counter = 0

\* the worker has just sent a position estimate
EstimateEmitted ==
    /\ PositionHandled
    /\ Sent(out, "GLOBAL_VISION_POSITION_ESTIMATE") # << >>

\* C23: reset_counter and origin are updated together: the worker never
\* sends a position estimate in a state where the stored origin has changed
\* and reset_counter has not yet been incremented.
C23_OriginAndCounterTogether ==
    EstimateEmitted => ~OriginAhead

(***************************************************************************)
(* The two attitudes                                                       *)
(***************************************************************************)
AttitudeOf(data) == <<data.roll, data.pitch, data.yaw>>

\* C24 as stated: current_attitude is the attitude of the latest
\* position_local record and last_attitude that of the position_local
\* record before it: handle_position_local moves the attitude it replaces
\* into last_attitude, and no other step writes either of them.
C24_TwoLatestObservations ==
    /\ PositionHandled =>
           /\ current_attitude = AttitudeOf(ev.data)
           /\ last_attitude = ev.before.current_attitude
    /\ (ev.op # "start" /\ ~PositionHandled) =>
           /\ current_attitude = ev.before.current_attitude
           /\ last_attitude = ev.before.last_attitude

\* C24, amended: current_attitude is the attitude of the latest
\* position_local record, and last_attitude is the value current_attitude
\* had when the latest valid velocity record was handled (the initial
\* attitude before any): handle_position_local writes current_attitude
\* only, a valid velocity record copies it to last_attitude, and no other
\* step writes either.
C24_AttitudeSinceLastVelocity ==
    /\ PositionHandled =>
           /\ current_attitude = AttitudeOf(ev.data)
           /\ last_attitude = ev.before.last_attitude
    /\ VelocityHandled(TRUE) =>
           /\ current_attitude = ev.before.current_attitude
           /\ last_attitude = ev.before.current_attitude
    /\ (ev.op # "start" /\ ~PositionHandled /\ ~VelocityHandled(TRUE)) =>
           /\ current_attitude = ev.before.current_attitude
           /\ last_attitude = ev.before.last_attitude

\* a second position_local record arrives with no velocity record between:
\* last_attitude is still the initial attitude, not that of the first
C24_Witness ==
    /\ PositionHandled
    /\ ev.before.current_attitude = <<10, 20, 30>>
    /\ ev.before.last_attitude = <<0, 0, 0>>
    /\ current_attitude = <<0, 0, 0>>
    /\ last_attitude = <<0, 0, 0>>

Minus(a, b) == <<a[1] - b[1], a[2] - b[2], a[3] - b[3]>>

\* C25: after handle_velocity has processed a valid record, last_attitude
\* equals current_attitude, in every send-mode and orientation; the
\* attitude delta a position-delta message carries is the remapping of
\* current_attitude minus the attitude held when the previous valid
\* velocity record was processed, and it is zero when no position_local
\* record has changed current_attitude in between.
C25_LastAttitudeFollows ==
    VelocityHandled(TRUE) =>
        LET deltas == Sent(out, "VISION_POSITION_DELTA")
            d == Minus(ev.before.current_attitude, ev.before.last_attitude)
        IN  /\ last_attitude = current_attitude
            /\ current_attitude = ev.before.current_attitude
            /\ (should_send = POSITION_DELTA
                /\ orientation \in {DVL_DOWN, DVL_FORWARD}) =>
                   /\ Len(deltas) = 1
                   /\ deltas[1].angle_delta =
                          AttitudeDelta(orientation, d[1], d[2], d[3])
                   /\ ev.before.current_attitude = ev.before.last_attitude
                          => deltas[1].angle_delta = <<0, 0, 0>>

\* a valid record in SPEED_ESTIMATE mode after the attitude has changed
C25_Witness ==
    /\ VelocityHandled(TRUE)
    /\ should_send = SPEED_ESTIMATE
    /\ ev.before.current_attitude # ev.before.last_attitude
    /\ last_attitude = current_attitude

\* C26: reconnect() always returns, whatever shutdown and close of the old
\* socket do, and never changes the configured hostname: after an iteration
\* that called it the loop is still running, and the hostname in memory and
\* in the settings is the one configured.
C26_ReconnectReturns ==
    (ev.op = "run" /\ Reconnecting) =>
        /\ ev.reconnected # "lost"
        /\ pc = "run"
        /\ hostname = HOSTNAME
        /\ settings_file.hostname = HOSTNAME

(***************************************************************************)
(* The range-finder relay                                                  *)
(***************************************************************************)
\* C27: handle_velocity sends a range-finder update if and only if the
\* record is valid, the relay is enabled and altitude > min_altitude; then
\* it sends exactly one, carrying the record's altitude, ahead of the
\* navigation message of the record; this in every send-mode.
C27_RangefinderRelay ==
    ev.op = "handle_velocity" =>
        LET rf == Sent(out, "DISTANCE_SENSOR")
        IN  /\ rf # << >> <=> /\ ev.data.velocity_valid
                              /\ rangefinder
                              /\ ev.data.altitude > min_altitude
            /\ rf # << >> =>
                   /\ Len(rf) = 1
                   /\ rf[1].current_distance = ev.data.altitude
                   /\ out[1].msg = "DISTANCE_SENSOR"

\* the update goes out ahead of the position delta of the same record
C27_Witness ==
    /\ VelocityHandled(TRUE)
    /\ should_send = POSITION_DELTA
    /\ Len(out) = 2
    /\ out[1].msg = "DISTANCE_SENSOR"
    /\ out[2].msg = "VISION_POSITION_DELTA"

(***************************************************************************)
(* The orientation a position delta is sent under                          *)
(***************************************************************************)
\* C28: every position-delta message sent for a valid velocity record
\* carries either the DOWN mapping or the FORWARD mapping of the record's
\* (dx, dy, dz) and of the attitude delta, whatever settings were loaded
\* and whatever set_orientation calls came before; the all-zero
\* placeholder is not sent for a record whose deltas are not zero.
C28_DeltaAlwaysMapped ==
    VelocityHandled(TRUE) =>
        LET deltas == Sent(out, "VISION_POSITION_DELTA")
            dx == ev.data.time * ev.data.vx
            dy == ev.data.time * ev.data.vy
            dz == ev.data.time * ev.data.vz
            d == Minus(ev.before.current_attitude, ev.before.last_attitude)
        IN  \A i \in DOMAIN deltas :
                \E o \in {DVL_DOWN, DVL_FORWARD} :
                    /\ deltas[i].position_delta = PositionDelta(o, dx, dy, dz)
                    /\ deltas[i].angle_delta =
                           AttitudeDelta(o, d[1], d[2], d[3])

(***************************************************************************)
(* The order of reset_counter values sent                                  *)
(***************************************************************************)
\* the position estimates among the outbound calls of a step
Estimates(o) == Sent(o, "GLOBAL_VISION_POSITION_ESTIMATE")

\* this step is the send that ends caller c's re-referencing call, and the
\* step of the driver before it was the send of another such call
SendAfterSend(c) ==
    /\ api[c].pc = "send"
    /\ api'[c].pc = "idle"
    /\ ev.op = "set_current_position"
    /\ ev.step = "send"

\* C29: the reset_counter values of the position estimates sent, by the
\* worker and by set_current_position calls in any interleaving, never
\* decrease from one message to the next, and two set_current_position
\* calls that both re-reference the frame send two different values.
C29_ResetCounterOrdered ==
    [][/\ (Estimates(out) # << >> /\ Estimates(out') # << >>) =>
              Estimates(out')[1].reset_counter
                  >= Estimates(out)[1].reset_counter
       /\ \A c \in Callers :
              SendAfterSend(c) =>
                  Estimates(out')[1].reset_counter
                      # Estimates(out)[1].reset_counter]_vars

============================================================================
